---- MODULE Spec2Model ----
(***************************************************************************)
(* State-machine model of the client-side controller of the site:          *)
(*   assets/js/script.js      page router, section filters, contact form   *)
(*   assets/js/blog-simple.js article catalog, loader, modal, watcher      *)
(* The element tree is the shared state: class lists are modelled as the   *)
(* boolean "active" of each element, text content as strings.              *)
(***************************************************************************)
EXTENDS Integers, Sequences, FiniteSets, TLC

(***************************************************************************)
(* Bounds of the model.                                                    *)
(***************************************************************************)
\* invocations of openPost in one run
MaxOpens == 2
\* deferred callbacks of one kind that are pending at the same time
MaxTimers == 2
\* lines of an article file whose metadata block is examined
MaxLines == 3
\* items of a collection the two filter functions are compared on
MaxItems == 3
\* submissions of the contact form
MaxSubmits == 3

(***************************************************************************)
(* JavaScript values.                                                      *)
(***************************************************************************)
\* sessionStorage.getItem on an absent key, and a null object reference
Null == "<null>"
\* element.dataset.category of an element without the attribute
Undefined == "<undefined>"

\* String.prototype.toLowerCase on the texts that occur in the document
LowerCaseOf ==
  [s \in {"All", "Web design", "Web Design", "Applications",
          "Edge AI", "Edge Ai", "GPU Programming", "Linux Kernel",
          "GPU Architecture", "About", "Resume", "Blog"} |->
     CASE s = "All" -> "all"
       [] s = "Web design" -> "web design"
       [] s = "Web Design" -> "web design"
       [] s = "Applications" -> "applications"
       [] s = "Edge AI" -> "edge ai"
       [] s = "Edge Ai" -> "edge ai"
       [] s = "GPU Programming" -> "gpu programming"
       [] s = "Linux Kernel" -> "linux kernel"
       [] s = "GPU Architecture" -> "gpu architecture"
       [] s = "About" -> "about"
       [] s = "Resume" -> "resume"
       [] s = "Blog" -> "blog"]

toLowerCase(s) == IF s \in DOMAIN LowerCaseOf THEN LowerCaseOf[s] ELSE s

(***************************************************************************)
(* The document the scripts are loaded into.                               *)
(***************************************************************************)
\* data-page identifiers of the page sections
PageIds == {"about", "resume", "blog"}
\* innerHTML of the navigation controls, in document order
NavLabels == <<"About", "Resume", "Blog">>
\* a session value that names no page section
StalePageId == "projects"
\* innerText of the filter buttons and of the dropdown options of a section
PortfolioLabels == <<"All", "Web design", "Applications">>
ArticlesLabels == <<"All", "Edge AI", "GPU Programming">>
\* data-category values of the items of a section, in document order: the
\* document as published, and a variant with other items
PortfolioDocuments == {<<"web design", "Applications", "Web Design">>,
                       <<"applications", "web design">>}
ArticlesDocuments == {<<"Edge AI", "GPU Programming", "edge ai">>,
                      <<"GPU Programming", "Edge AI">>}

VARIABLES
  pages,                   \* pages[i] = [page, active]
  navigationLinks,         \* navigationLinks[i] = [innerHTML, active]
  currentPage,             \* script.js: let currentPage
  sessionStorage,          \* value of the key 'currentPage', or Null
  scrollY,                 \* viewport scroll position (0 = top)
  portfolioItems,          \* .portfolio [data-filter-item]: [category, active]
  articleItems,            \* .articles [data-filter-item]: [category, active]
  portfolioFilterBtn,      \* [innerText, active]
  articlesFilterBtn,       \* [innerText, active]
  portfolioSelect,         \* dropdown open (class active)
  articlesSelect,
  portfolioSelectValue,    \* displayed selection label
  articlesSelectValue,
  lastClickedBtnPortfolio, \* index of a filter button, 0 for null
  lastClickedBtnArticles,
  domContentLoaded,        \* the DOMContentLoaded handler has run
  watcher,                 \* blog-simple.js bootstrap: which triggers are installed
  initTimers,              \* pending setTimeout(initBlogManager, ..) callbacks
  mediumTimers,            \* pending setTimeout(setupMediumButton) callbacks
  mediumBtnListeners,      \* click listeners added to .medium-follow-btn
  globalBlogManager,       \* [constructed, initialized; history: renders]
  articlesContainer,       \* the document has an element .articles-list
  marked,                  \* the conversion engine is defined
  calls,                   \* calls[c]: an invocation of openPost
  modals,                  \* modals[m]: an overlay built by showModal
  formBtn,                 \* [data-form-btn]: [textContent of its span, disabled]
  formValid,               \* form.checkValidity()
  formTimers,              \* formTimers[k]: the delayed callbacks of submission k
  applied,                 \* history: selectedValue last passed to a section's filter
  ev                       \* history: the handler that ran last, and its argument

routerVars == <<pages, navigationLinks, currentPage, sessionStorage, scrollY>>
portfolioVars == <<portfolioItems, portfolioFilterBtn, portfolioSelect,
                   portfolioSelectValue, lastClickedBtnPortfolio>>
articlesVars == <<articleItems, articlesFilterBtn, articlesSelect,
                  articlesSelectValue, lastClickedBtnArticles>>
\* the articles section without its items
articlesItemsFrame == <<articlesFilterBtn, articlesSelect, articlesSelectValue,
                        lastClickedBtnArticles>>
watcherVars == <<watcher, initTimers, mediumTimers, mediumBtnListeners,
                 globalBlogManager, articlesContainer>>
loaderVars == <<marked, calls, modals>>
blogVars == <<watcherVars, loaderVars>>
formVars == <<formBtn, formValid, formTimers>>
vars == <<routerVars, portfolioVars, articlesVars, domContentLoaded, blogVars,
          formVars, applied, ev>>

Event(op, val) == [op |-> op, val |-> val, threw |-> FALSE]
\* the handler ended in an exception nobody caught
Thrown(op, val) == [op |-> op, val |-> val, threw |-> TRUE]

(***************************************************************************)
(* Helpers on element collections.                                         *)
(***************************************************************************)
\* classList.add("active") / classList.remove("active")
AddActive(el) == [el EXCEPT !.active = TRUE]
RemoveActive(el) == [el EXCEPT !.active = FALSE]
ActiveIdx(coll) == {i \in DOMAIN coll : coll[i].active}
Injective(f) == \A i, j \in DOMAIN f : f[i] = f[j] => i = j

(***************************************************************************)
(* PageRouter (script.js 216-251).                                         *)
(***************************************************************************)
Matches(pageName) == {i \in DOMAIN pages : pageName = pages[i].page}

\* setActivePage without its else branch: other pages are never deactivated
setActivePage_NoDeactivate(pageName) ==
  /\ pages' = [i \in DOMAIN pages |->
                 IF pageName = pages[i].page THEN AddActive(pages[i]) ELSE pages[i]]
  /\ navigationLinks' = [i \in DOMAIN navigationLinks |->
                 IF i \in DOMAIN pages /\ pageName = pages[i].page
                 THEN AddActive(navigationLinks[i]) ELSE navigationLinks[i]]
  /\ currentPage' = IF Matches(pageName) # {} THEN pageName ELSE currentPage
  /\ sessionStorage' = IF Matches(pageName) # {} THEN pageName ELSE sessionStorage

\* setActivePage that returns at once when no page is active
setActivePage_NeedsActivePage(pageName) ==
  IF ActiveIdx(pages) = {}
  THEN UNCHANGED <<pages, navigationLinks, currentPage, sessionStorage>>
  ELSE /\ pages' = [i \in DOMAIN pages |->
                      IF pageName = pages[i].page THEN AddActive(pages[i])
                                                   ELSE RemoveActive(pages[i])]
       /\ navigationLinks' = [i \in DOMAIN navigationLinks |->
                      IF i \in DOMAIN pages
                      THEN IF pageName = pages[i].page
                           THEN AddActive(navigationLinks[i])
                           ELSE RemoveActive(navigationLinks[i])
                      ELSE navigationLinks[i]]
       /\ currentPage' = IF Matches(pageName) # {} THEN pageName ELSE currentPage
       /\ sessionStorage' = IF Matches(pageName) # {} THEN pageName
                            ELSE sessionStorage

\* setActivePage with classList.toggle on the matching page and control
setActivePage_Toggle(pageName) ==
  /\ pages' = [i \in DOMAIN pages |->
                 IF pageName = pages[i].page
                 THEN [pages[i] EXCEPT !.active = ~pages[i].active]
                 ELSE RemoveActive(pages[i])]
  /\ navigationLinks' = [i \in DOMAIN navigationLinks |->
                 IF i \in DOMAIN pages
                 THEN IF pageName = pages[i].page
                      THEN [navigationLinks[i] EXCEPT
                              !.active = ~navigationLinks[i].active]
                      ELSE RemoveActive(navigationLinks[i])
                 ELSE navigationLinks[i]]
  /\ currentPage' = IF Matches(pageName) # {} THEN pageName ELSE currentPage
  /\ sessionStorage' = IF Matches(pageName) # {} THEN pageName ELSE sessionStorage

setActivePage(pageName) ==
  /\ pages' = [i \in DOMAIN pages |->
                 IF pageName = pages[i].page THEN AddActive(pages[i])
                                              ELSE RemoveActive(pages[i])]
  /\ navigationLinks' = [i \in DOMAIN navigationLinks |->
                 IF i \in DOMAIN pages
                 THEN IF pageName = pages[i].page
                      THEN AddActive(navigationLinks[i])
                      ELSE RemoveActive(navigationLinks[i])
                 ELSE navigationLinks[i]]
  /\ currentPage' = IF Matches(pageName) # {} THEN pageName ELSE currentPage
  /\ sessionStorage' = IF Matches(pageName) # {} THEN pageName ELSE sessionStorage

NavLinkClick(i) ==
  LET pageName == toLowerCase(navigationLinks[i].innerHTML) IN
  /\ setActivePage(pageName)
  /\ scrollY' = 0
  \* blog-simple.js 255-259: the document-level click listener of the watcher
  /\ watcher = "watching" => initTimers < MaxTimers
  /\ initTimers' = IF watcher = "watching" THEN initTimers + 1 ELSE initTimers
  /\ ev' = Event("navLinkClick", pageName)
  /\ UNCHANGED <<formVars, portfolioVars, articlesVars, domContentLoaded, applied,
                 watcher, mediumTimers, mediumBtnListeners, globalBlogManager,
                 articlesContainer, loaderVars>>

PopState ==
  LET savedPage == IF sessionStorage # Null THEN sessionStorage ELSE "about" IN
  /\ setActivePage(savedPage)
  /\ ev' = Event("popstate", savedPage)
  /\ UNCHANGED <<formVars, blogVars, scrollY, portfolioVars, articlesVars, domContentLoaded, applied>>

\* the user scrolls the viewport away from the top
UserScroll ==
  /\ scrollY = 0
  /\ scrollY' = 1
  /\ ev' = Event("scroll", Null)
  /\ UNCHANGED <<formVars, blogVars, pages, navigationLinks, currentPage, sessionStorage,
                 portfolioVars, articlesVars, domContentLoaded, applied>>

(***************************************************************************)
(* Contact form (script.js 173-214).                                       *)
(***************************************************************************)
\* the label of the submit control in the markup
SubmitLabel == "Send Message"

\* stages of the delayed callbacks of one submission: the 1000 ms callback
\* is pending, the nested 2000 ms callback is pending, both have run
FirstPending == "first"
SecondPending == "second"
Done == "done"
StageRank == [first |-> 1, second |-> 2, done |-> 3]

\* an input event on a field: the control follows the form's validity
FormInput(valid) ==
  /\ formValid' = valid
  /\ formBtn' = [formBtn EXCEPT !.disabled = ~valid]
  /\ ev' = Event("input", valid)
  /\ UNCHANGED <<routerVars, portfolioVars, articlesVars, domContentLoaded,
                 blogVars, formTimers, applied>>

\* the submit event of the form.  The browser fires it for a valid form whose
\* submit control is enabled; the handler captures the label shown at that
\* moment and schedules the first callback.
FormSubmit ==
  /\ Len(formTimers) < MaxSubmits
  /\ ~formBtn.disabled /\ formValid
  /\ formTimers' = Append(formTimers, [stage |-> FirstPending,
                                       originalText |-> formBtn.textContent])
  /\ formBtn' = [textContent |-> "Sending...", disabled |-> TRUE]
  /\ ev' = Event("submit", Null)
  /\ UNCHANGED <<routerVars, portfolioVars, articlesVars, domContentLoaded,
                 blogVars, formValid, applied>>

\* the next delayed callback of submission k fires.  Callbacks of equal
\* delay fire in the order they were scheduled, so submission k reaches a
\* stage only after every earlier submission has.
FormTimerFires(k) ==
  /\ formTimers[k].stage # Done
  /\ \A j \in 1..(k - 1) :
        StageRank[formTimers[j].stage] > StageRank[formTimers[k].stage]
  /\ IF formTimers[k].stage = FirstPending
     THEN /\ formBtn' = [formBtn EXCEPT !.textContent = "Message Sent!"]
          /\ formTimers' = [formTimers EXCEPT ![k].stage = SecondPending]
     ELSE /\ formBtn' = [textContent |-> formTimers[k].originalText,
                         disabled |-> FALSE]
          /\ formTimers' = [formTimers EXCEPT ![k].stage = Done]
  /\ ev' = Event("formTimer", k)
  /\ UNCHANGED <<routerVars, portfolioVars, articlesVars, domContentLoaded,
                 blogVars, formValid, applied>>

(***************************************************************************)
(* FilterController (script.js 18-147).                                    *)
(***************************************************************************)
\* elementToggleFunc: classList.toggle("active") on a dropdown
elementToggleFunc(open) == ~open

\* index of the first item on which portfolioFilterFunc throws a TypeError
\* (dataset.category.toLowerCase() on an item without the attribute), or 0
portfolioFilterThrowsAt(items, selectedValue) ==
  LET missing == {i \in DOMAIN items : items[i].category = Undefined} IN
  IF selectedValue = "all" \/ missing = {} THEN 0
  ELSE CHOOSE i \in missing : \A j \in missing : i <= j

\* portfolioFilterFunc comparing the category attribute as written
portfolioFilterFunc_CaseSensitive(items, selectedValue) ==
  [i \in DOMAIN items |->
     IF selectedValue = "all" THEN AddActive(items[i])
     ELSE IF selectedValue = items[i].category THEN AddActive(items[i])
     ELSE RemoveActive(items[i])]

portfolioFilterFunc(items, selectedValue) ==
  LET t == portfolioFilterThrowsAt(items, selectedValue) IN
  [i \in DOMAIN items |->
     IF t # 0 /\ i >= t THEN items[i]
     ELSE IF selectedValue = "all" THEN AddActive(items[i])
     ELSE IF selectedValue = toLowerCase(items[i].category) THEN AddActive(items[i])
     ELSE RemoveActive(items[i])]

\* the truthiness test "if (itemCategory)" of articlesFilterFunc
Truthy(itemCategory) == itemCategory # Undefined /\ itemCategory # ""

\* the matching logic with a mapping from a category to a related one
articlesShouldShow_Mapping(itemCategory, selectedValue) ==
  /\ Truthy(itemCategory)
  /\ LET categoryLower == toLowerCase(itemCategory) IN
       \/ selectedValue = categoryLower
       \/ selectedValue = "edge ai" /\ categoryLower = "edge ai"
       \/ selectedValue = "linux kernel" /\ categoryLower = "linux kernel"
       \/ selectedValue = "gpu programming" /\ categoryLower = "gpu architecture"

articlesShouldShow(itemCategory, selectedValue) ==
  /\ Truthy(itemCategory)
  /\ LET categoryLower == toLowerCase(itemCategory) IN
       \/ selectedValue = categoryLower
       \/ selectedValue = "edge ai" /\ categoryLower = "edge ai"
       \/ selectedValue = "linux kernel" /\ categoryLower = "linux kernel"
       \/ selectedValue = "gpu programming" /\ categoryLower = "gpu programming"

articlesFilterFunc(items, selectedValue) ==
  [i \in DOMAIN items |->
     IF selectedValue = "all" THEN AddActive(items[i])
     ELSE IF articlesShouldShow(items[i].category, selectedValue)
          THEN AddActive(items[i])
          ELSE RemoveActive(items[i])]

\* a click on a dropdown button opens or closes the option list
PortfolioSelectClick ==
  /\ portfolioSelect' = elementToggleFunc(portfolioSelect)
  /\ ev' = Event("portfolioSelect", Null)
  /\ UNCHANGED <<formVars, blogVars, routerVars, portfolioItems, portfolioFilterBtn,
                 portfolioSelectValue, lastClickedBtnPortfolio,
                 articlesVars, domContentLoaded, applied>>

ArticlesSelectClick ==
  /\ articlesSelect' = elementToggleFunc(articlesSelect)
  /\ ev' = Event("articlesSelect", Null)
  /\ UNCHANGED <<formVars, blogVars, routerVars, articleItems, articlesFilterBtn,
                 articlesSelectValue, lastClickedBtnArticles,
                 portfolioVars, domContentLoaded, applied>>

\* a click on option i of the dropdown (the options carry the button texts)
PortfolioSelectItemClick(i) ==
  LET innerText == PortfolioLabels[i]
      selectedValue == toLowerCase(innerText) IN
  /\ portfolioSelectValue' = innerText
  /\ portfolioSelect' = elementToggleFunc(portfolioSelect)
  /\ portfolioItems' = portfolioFilterFunc(portfolioItems, selectedValue)
  /\ applied' = [applied EXCEPT !.portfolio = selectedValue]
  /\ ev' = IF portfolioFilterThrowsAt(portfolioItems, selectedValue) # 0
           THEN Thrown("portfolioSelectItem", selectedValue)
           ELSE Event("portfolioSelectItem", selectedValue)
  /\ UNCHANGED <<formVars, blogVars, routerVars, portfolioFilterBtn, lastClickedBtnPortfolio,
                 articlesVars, domContentLoaded>>

ArticlesSelectItemClick(i) ==
  LET innerText == ArticlesLabels[i]
      selectedValue == toLowerCase(innerText) IN
  /\ articlesSelectValue' = innerText
  /\ articlesSelect' = elementToggleFunc(articlesSelect)
  /\ articleItems' = articlesFilterFunc(articleItems, selectedValue)
  /\ applied' = [applied EXCEPT !.articles = selectedValue]
  /\ ev' = Event("articlesSelectItem", selectedValue)
  /\ UNCHANGED <<formVars, blogVars, routerVars, articlesFilterBtn, lastClickedBtnArticles,
                 portfolioVars, domContentLoaded>>

\* the button bookkeeping that ends a filter-button click handler
ActivateBtn(btns, last, i) ==
  [j \in DOMAIN btns |->
     IF j = i THEN AddActive(btns[j])
     ELSE IF j = last THEN RemoveActive(btns[j])
     ELSE btns[j]]

\* the click handler filtering every [data-filter-item] of the document
PortfolioFilterBtnClick_Unscoped(i) ==
  LET innerText == portfolioFilterBtn[i].innerText
      selectedValue == toLowerCase(innerText) IN
  /\ portfolioSelectValue' = innerText
  /\ portfolioItems' = portfolioFilterFunc(portfolioItems, selectedValue)
  /\ articleItems' = portfolioFilterFunc(articleItems, selectedValue)
  /\ portfolioFilterBtn' =
       ActivateBtn(portfolioFilterBtn, lastClickedBtnPortfolio, i)
  /\ lastClickedBtnPortfolio' = i
  /\ applied' = [applied EXCEPT !.portfolio = selectedValue]
  /\ ev' = Event("portfolioFilterBtn", selectedValue)
  /\ UNCHANGED <<formVars, blogVars, routerVars, portfolioSelect, articlesFilterBtn, articlesSelect,
                 articlesSelectValue, lastClickedBtnArticles, domContentLoaded>>

PortfolioFilterBtnClick(i) ==
  LET innerText == portfolioFilterBtn[i].innerText
      selectedValue == toLowerCase(innerText)
      threw == portfolioFilterThrowsAt(portfolioItems, selectedValue) # 0 IN
  /\ portfolioSelectValue' = innerText
  /\ portfolioItems' = portfolioFilterFunc(portfolioItems, selectedValue)
  /\ IF threw
     THEN UNCHANGED <<portfolioFilterBtn, lastClickedBtnPortfolio>>
     ELSE /\ portfolioFilterBtn' =
               ActivateBtn(portfolioFilterBtn, lastClickedBtnPortfolio, i)
          /\ lastClickedBtnPortfolio' = i
  /\ applied' = [applied EXCEPT !.portfolio = selectedValue]
  /\ ev' = IF threw THEN Thrown("portfolioFilterBtn", selectedValue)
                    ELSE Event("portfolioFilterBtn", selectedValue)
  /\ UNCHANGED <<formVars, blogVars, routerVars, portfolioSelect, articlesVars, domContentLoaded>>

\* the click handler also switching to the section's page
ArticlesFilterBtnClick_Navigates(i) ==
  LET innerText == articlesFilterBtn[i].innerText
      selectedValue == toLowerCase(innerText) IN
  /\ articlesSelectValue' = innerText
  /\ articleItems' = articlesFilterFunc(articleItems, selectedValue)
  /\ articlesFilterBtn' =
       ActivateBtn(articlesFilterBtn, lastClickedBtnArticles, i)
  /\ lastClickedBtnArticles' = i
  /\ applied' = [applied EXCEPT !.articles = selectedValue]
  /\ ev' = Event("articlesFilterBtn", selectedValue)
  /\ setActivePage("blog")
  /\ UNCHANGED <<formVars, blogVars, scrollY, articlesSelect, portfolioVars, domContentLoaded>>

ArticlesFilterBtnClick(i) ==
  LET innerText == articlesFilterBtn[i].innerText
      selectedValue == toLowerCase(innerText) IN
  /\ articlesSelectValue' = innerText
  /\ articleItems' = articlesFilterFunc(articleItems, selectedValue)
  /\ articlesFilterBtn' =
       ActivateBtn(articlesFilterBtn, lastClickedBtnArticles, i)
  /\ lastClickedBtnArticles' = i
  /\ applied' = [applied EXCEPT !.articles = selectedValue]
  /\ ev' = Event("articlesFilterBtn", selectedValue)
  /\ UNCHANGED <<formVars, blogVars, routerVars, articlesSelect, portfolioVars, domContentLoaded>>

\* both filter functions applied with one value, each to its own section
ApplyFilters(selectedValue) ==
  /\ portfolioItems' = portfolioFilterFunc(portfolioItems, selectedValue)
  /\ articleItems' = articlesFilterFunc(articleItems, selectedValue)
  /\ applied' = [portfolio |-> selectedValue, articles |-> selectedValue]
  /\ ev' = Event("applyFilters", selectedValue)
  /\ UNCHANGED <<formVars, blogVars, routerVars, portfolioFilterBtn, portfolioSelect,
                 portfolioSelectValue, lastClickedBtnPortfolio,
                 articlesItemsFrame, domContentLoaded>>

(***************************************************************************)
(* Startup (script.js 149-171).                                            *)
(***************************************************************************)
\* the handler of script.js
ScriptDOMContentLoaded ==
  /\ lastClickedBtnPortfolio' =
       IF Len(portfolioFilterBtn) > 0 THEN 1 ELSE lastClickedBtnPortfolio
  /\ lastClickedBtnArticles' =
       IF Len(articlesFilterBtn) > 0 THEN 1 ELSE lastClickedBtnArticles
  /\ articleItems' = [i \in DOMAIN articleItems |-> AddActive(articleItems[i])]
  /\ setActivePage(currentPage)

\* the handler blog-simple.js registers when it runs while the document loads
BlogDOMContentLoaded ==
  IF watcher = "listening"
  THEN /\ watcher' = "watching"
       /\ initTimers' = initTimers + 1
  ELSE UNCHANGED <<watcher, initTimers>>

\* the event runs the listeners in the order of their registration
DOMContentLoaded ==
  /\ ~domContentLoaded
  /\ domContentLoaded' = TRUE
  /\ ScriptDOMContentLoaded
  /\ BlogDOMContentLoaded
  /\ ev' = Event("DOMContentLoaded", currentPage)
  /\ UNCHANGED <<formVars, scrollY, portfolioItems, portfolioFilterBtn, portfolioSelect,
                 portfolioSelectValue, articlesFilterBtn, articlesSelect,
                 articlesSelectValue, applied, mediumTimers, mediumBtnListeners,
                 globalBlogManager, articlesContainer, loaderVars>>

(***************************************************************************)
(* ArticleCatalog and ActivationWatcher (blog-simple.js 1-69, 203-271).    *)
(***************************************************************************)
\* this.blogPosts
BlogPosts == << [title |-> "AMD GPU Ring Buffer Architecture",
                 category |-> "GPU Architecture",
                 slug |-> "ring_buffer",
                 file |-> "blog/ring_buffer.md"] >>

createArticleElement(k) ==
  [category |-> BlogPosts[k].category, active |-> TRUE, post |-> k]

loadBlogPosts == [k \in DOMAIN BlogPosts |-> createArticleElement(k)]

BlogSectionActive == \E i \in DOMAIN pages : pages[i].page = "blog" /\ pages[i].active

\* initBlogManager without the test of the initialized flag
initBlogManager_NoFlagTest ==
  IF BlogSectionActive
  THEN /\ mediumTimers < MaxTimers
       /\ IF articlesContainer
          THEN /\ articleItems' = loadBlogPosts
               /\ globalBlogManager' = [constructed |-> TRUE, initialized |-> TRUE,
                                         renders |-> globalBlogManager.renders + 1]
          ELSE /\ articleItems' = articleItems
               /\ globalBlogManager' = [globalBlogManager EXCEPT !.constructed = TRUE]
       /\ mediumTimers' = mediumTimers + 1
  ELSE /\ globalBlogManager' = [globalBlogManager EXCEPT !.constructed = TRUE]
       /\ UNCHANGED <<articleItems, mediumTimers>>

\* initBlogManager without the test that the articles page is active
initBlogManager_NoActiveTest ==
  IF ~globalBlogManager.initialized
  THEN /\ mediumTimers < MaxTimers
       /\ IF articlesContainer
          THEN /\ articleItems' = loadBlogPosts
               /\ globalBlogManager' = [constructed |-> TRUE, initialized |-> TRUE,
                                         renders |-> globalBlogManager.renders + 1]
          ELSE /\ articleItems' = articleItems
               /\ globalBlogManager' = [globalBlogManager EXCEPT !.constructed = TRUE]
       /\ mediumTimers' = mediumTimers + 1
  ELSE /\ globalBlogManager' = [globalBlogManager EXCEPT !.constructed = TRUE]
       /\ UNCHANGED <<articleItems, mediumTimers>>

\* initBlogManager with an init() that sets the flag before it looks for the
\* container
initBlogManager_FlagOnFailure ==
  IF BlogSectionActive /\ ~globalBlogManager.initialized
  THEN /\ mediumTimers < MaxTimers
       /\ IF articlesContainer
          THEN /\ articleItems' = loadBlogPosts
               /\ globalBlogManager' = [constructed |-> TRUE, initialized |-> TRUE,
                                         renders |-> globalBlogManager.renders + 1]
          ELSE /\ articleItems' = articleItems
               /\ globalBlogManager' = [globalBlogManager EXCEPT
                                          !.constructed = TRUE,
                                          !.initialized = TRUE]
       /\ mediumTimers' = mediumTimers + 1
  ELSE /\ globalBlogManager' = [globalBlogManager EXCEPT !.constructed = TRUE]
       /\ UNCHANGED <<articleItems, mediumTimers>>

\* the body of initBlogManager, run from a timeout or from the interval
initBlogManager ==
  IF BlogSectionActive /\ ~globalBlogManager.initialized
  THEN /\ mediumTimers < MaxTimers
       /\ IF articlesContainer
          THEN /\ articleItems' = loadBlogPosts
               /\ globalBlogManager' = [constructed |-> TRUE, initialized |-> TRUE,
                                         renders |-> globalBlogManager.renders + 1]
          ELSE /\ articleItems' = articleItems
               /\ globalBlogManager' = [globalBlogManager EXCEPT !.constructed = TRUE]
       /\ mediumTimers' = mediumTimers + 1
  ELSE /\ globalBlogManager' = [globalBlogManager EXCEPT !.constructed = TRUE]
       /\ UNCHANGED <<articleItems, mediumTimers>>

\* blog-simple.js is executed: while the document is loading it waits for
\* DOMContentLoaded, otherwise it schedules a single deferred check
BlogScriptRun(loading) ==
  /\ watcher = "notrun"
  /\ loading => ~domContentLoaded
  /\ IF loading
     THEN /\ watcher' = "listening"
          /\ UNCHANGED initTimers
     ELSE /\ watcher' = "oneshot"
          /\ initTimers' = initTimers + 1
  /\ ev' = Event("blogScript", Null)
  /\ UNCHANGED <<formVars, routerVars, portfolioVars, articlesVars, domContentLoaded,
                 mediumTimers, mediumBtnListeners, globalBlogManager,
                 articlesContainer, loaderVars, applied>>

\* a deferred check (setTimeout(initBlogManager, ..)) fires
InitTimerFires ==
  /\ initTimers > 0
  /\ initTimers' = initTimers - 1
  /\ initBlogManager
  /\ ev' = Event("initTimer", Null)
  /\ UNCHANGED <<formVars, routerVars, portfolioVars, articlesItemsFrame, domContentLoaded,
                 watcher, mediumBtnListeners, articlesContainer, loaderVars, applied>>

\* the periodic recheck (setInterval, every second) fires
IntervalFires ==
  /\ watcher = "watching"
  /\ IF globalBlogManager.constructed /\ ~globalBlogManager.initialized
     THEN initBlogManager
     ELSE UNCHANGED <<articleItems, globalBlogManager, mediumTimers>>
  /\ ev' = Event("interval", Null)
  /\ UNCHANGED <<formVars, routerVars, portfolioVars, articlesItemsFrame, domContentLoaded,
                 watcher, initTimers, mediumBtnListeners, articlesContainer,
                 loaderVars, applied>>

\* the element .articles-list, looked up anew by every init() (line 20), is
\* added to a document that was loaded without it
ArticlesContainerInserted ==
  /\ ~articlesContainer
  /\ articlesContainer' = TRUE
  /\ ev' = Event("containerInserted", Null)
  /\ UNCHANGED <<formVars, routerVars, portfolioVars, articlesVars, domContentLoaded,
                 watcher, initTimers, mediumTimers, mediumBtnListeners,
                 globalBlogManager, loaderVars, applied>>

\* setupMediumButton, 500 ms after an initialization attempt
MediumTimerFires ==
  /\ mediumTimers > 0
  /\ mediumTimers' = mediumTimers - 1
  /\ mediumBtnListeners < MaxTimers
  /\ mediumBtnListeners' = mediumBtnListeners + 1
  /\ ev' = Event("setupMediumButton", Null)
  /\ UNCHANGED <<formVars, routerVars, portfolioVars, articlesVars, domContentLoaded,
                 watcher, initTimers, globalBlogManager, articlesContainer,
                 loaderVars, applied>>

(***************************************************************************)
(* ContentLoader (blog-simple.js 71-134).  Texts of article files are      *)
(* sequences of characters; positions are counted from 0 as in the code.   *)
(***************************************************************************)
Marker == <<"-", "-", "-">>
Whitespace == {" ", "\n"}

startsWith(str, prefix) ==
  Len(str) >= Len(prefix) /\ SubSeq(str, 1, Len(prefix)) = prefix

\* position of the first occurrence of sub at or after from, or -1
indexOf(str, sub, from) ==
  LET hits == {k \in from..(Len(str) - Len(sub)) :
                 SubSeq(str, k + 1, k + Len(sub)) = sub} IN
  IF hits = {} THEN -1 ELSE CHOOSE k \in hits : \A h \in hits : k <= h

substring(str, from) == SubSeq(str, from + 1, Len(str))

trim(str) ==
  LET keep == {k \in DOMAIN str : str[k] \notin Whitespace} IN
  IF keep = {} THEN <<>>
  ELSE SubSeq(str, CHOOSE k \in keep : \A h \in keep : k <= h,
                   CHOOSE k \in keep : \A h \in keep : k >= h)

\* "Remove YAML frontmatter"
removeFrontmatter(content) ==
  IF startsWith(content, Marker)
  THEN LET secondDelimiter == indexOf(content, Marker, 3) IN
       IF secondDelimiter # -1
       THEN trim(substring(content, secondDelimiter + 3))
       ELSE content
  ELSE content

\* article files the server can deliver
BodyWithFrontmatter ==
  <<"-", "-", "-", "\n", "t", "\n", "-", "-", "-", "\n", "#", " ", "h", "\n">>
BodyPlain == <<"#", " ", "h">>
BodyUnterminated == <<"-", "-", "-", "\n", "t">>
Bodies == {BodyWithFrontmatter, BodyPlain, BodyUnterminated}

\* a fenced code block of an article, as one character of its text
CodeFence == "c"
\* articles with no, one and two code blocks
CodeBodies ==
  {<<"#", " ", "h">>, <<CodeFence>>, <<CodeFence, "\n", "t", "\n", CodeFence>>}

\* what blog/ring_buffer.md holds: the article opens with a metadata block
ArticleBody == BodyWithFrontmatter

\* lines an article file can be made of: the marker, a longer rule, text,
\* text that ends in three dashes, indented text, and the empty line
FileLines ==
  {Marker, <<"-", "-", "-", "-">>, <<"t">>, <<"t", "-", "-", "-">>,
   <<" ", "b">>, <<>>}

RECURSIVE JoinLines(_)
JoinLines(lines) ==
  IF Len(lines) = 1 THEN lines[1]
  ELSE lines[1] \o <<"\n">> \o JoinLines(Tail(lines))

\* the files of up to MaxLines lines, with and without a final newline
FileBodies ==
  LET texts == {JoinLines(ls) :
                  ls \in UNION {[1..n -> FileLines] : n \in 1..MaxLines}} IN
  texts \cup {t \o <<"\n">> : t \in texts}

\* the rich text marked.parse produces from a text
Rendered(content) == [kind |-> "html", text |-> content]
\* the inline message of the catch block
ErrorMessage(message) == [kind |-> "error", text |-> message]
FailedToFetch == <<"f", "e", "t", "c", "h">>
FailedToLoad == <<"l", "o", "a", "d">>
MarkedNotAvailable == <<"m", "a", "r", "k", "e", "d">>
ParseError == <<"p", "a", "r", "s", "e">>

(***************************************************************************)
(* ModalPresenter (blog-simple.js 136-200).                                *)
(***************************************************************************)
\* the overlay showModal builds for call c, with its listeners and its
\* deferred formatting pass; nowrap is the set of its code blocks that carry
\* the no-wrap style (call, removals and passes are history: the call that
\* built it, how often removeChild has removed it, and how often its
\* formatting pass has run)
\* showModal writing the body into every overlay of the document, not only
\* into the one it has just built
showModal_SharedBody(title, content, c) ==
  modals' = Append([m \in DOMAIN modals |->
                      IF modals[m].attached
                      THEN [modals[m] EXCEPT !.content = content]
                      ELSE modals[m]],
                   [title |-> title, content |-> content, call |-> c,
                    attached |-> TRUE, escListener |-> TRUE,
                    formatTimer |-> TRUE, formatted |-> FALSE,
                    nowrap |-> {}, removals |-> 0, passes |-> 0])

showModal(title, content, c) ==
  modals' = Append(modals, [title |-> title, content |-> content, call |-> c,
                            attached |-> TRUE, escListener |-> TRUE,
                            formatTimer |-> TRUE, formatted |-> FALSE,
                            nowrap |-> {}, removals |-> 0, passes |-> 0])

\* a catch block that logs the error and shows nothing
openPostCatch_LogOnly(c, message) ==
  modals' = modals

\* the catch block of openPost
openPostCatch(c, message) ==
  showModal(BlogPosts[calls[c].post].title, ErrorMessage(message), c)

\* a click on a rendered article: openPost runs up to its first await.
\* Of a call, post and pc are its state; the other fields are history:
\* requests issued, how its promise settled, whether the engine was defined
\* when it was called, how the request ended, the text received, and what
\* became of the conversion ("unused", "absent", "threw" or "parsed").
OpenPostClick(i) ==
  /\ articleItems[i].post # 0
  /\ Len(calls) < MaxOpens
  /\ calls' = Append(calls, [post |-> articleItems[i].post, pc |-> "fetch",
                             fetches |-> 1, settled |-> "pending",
                             markedAtCall |-> marked, response |-> "pending",
                             body |-> <<>>, engine |-> "unused"])
  /\ ev' = Event("openPost", BlogPosts[articleItems[i].post].slug)
  /\ UNCHANGED <<formVars, routerVars, portfolioVars, articlesVars, domContentLoaded,
                 watcherVars, marked, modals, applied>>

\* the request settles and a failed request is issued once more
FetchSettles_Retry(c, outcome) ==
  /\ calls[c].pc = "fetch"
  /\ IF outcome = "ok"
     THEN /\ calls' = [calls EXCEPT ![c].pc = "text", ![c].response = outcome]
          /\ UNCHANGED modals
     ELSE IF calls[c].fetches < 2
     THEN /\ calls' = [calls EXCEPT ![c].fetches = calls[c].fetches + 1]
          /\ UNCHANGED modals
     ELSE /\ calls' = [calls EXCEPT ![c].pc = "done", ![c].settled = "fulfilled",
                                    ![c].response = outcome]
          /\ openPostCatch(c, IF outcome = "reject" THEN FailedToFetch
                                                    ELSE FailedToLoad)
  /\ ev' = Event("fetchSettles", Null)
  /\ UNCHANGED <<formVars, routerVars, portfolioVars, articlesVars, domContentLoaded,
                 watcherVars, marked, applied>>

\* the request settles and response.ok is not looked at: any response is read
FetchSettles_NoStatusCheck(c, outcome) ==
  /\ calls[c].pc = "fetch"
  /\ IF outcome # "reject"
     THEN /\ calls' = [calls EXCEPT ![c].pc = "text", ![c].response = outcome]
          /\ UNCHANGED modals
     ELSE /\ calls' = [calls EXCEPT ![c].pc = "done", ![c].settled = "fulfilled",
                                    ![c].response = outcome]
          /\ openPostCatch(c, FailedToFetch)
  /\ ev' = Event("fetchSettles", Null)
  /\ UNCHANGED <<formVars, routerVars, portfolioVars, articlesVars, domContentLoaded,
                 watcherVars, marked, applied>>

\* the request of call c settles: it rejects, or resolves with a response
FetchSettles(c, outcome) ==
  /\ calls[c].pc = "fetch"
  /\ IF outcome = "ok"
     THEN /\ calls' = [calls EXCEPT ![c].pc = "text", ![c].response = outcome]
          /\ UNCHANGED modals
     ELSE /\ calls' = [calls EXCEPT ![c].pc = "done", ![c].settled = "fulfilled",
                                    ![c].response = outcome]
          /\ openPostCatch(c, IF outcome = "reject" THEN FailedToFetch
                                                    ELSE FailedToLoad)
  /\ ev' = Event("fetchSettles", Null)
  /\ UNCHANGED <<formVars, routerVars, portfolioVars, articlesVars, domContentLoaded,
                 watcherVars, marked, applied>>

\* the text settles and marked is used without the typeof test: the
\* ReferenceError of an undefined marked lands in the catch block
TextSettles_NoEngineCheck(c, body, rejects, parseThrows) ==
  /\ calls[c].pc = "text"
  /\ calls' = [calls EXCEPT ![c].pc = "done", ![c].settled = "fulfilled",
                            ![c].body = IF rejects THEN <<>> ELSE body,
                            ![c].engine = IF rejects THEN "unused"
                                          ELSE IF ~marked THEN "absent"
                                          ELSE IF parseThrows THEN "threw"
                                          ELSE "parsed"]
  /\ IF rejects THEN openPostCatch(c, FailedToFetch)
     ELSE IF ~marked \/ parseThrows THEN openPostCatch(c, ParseError)
     ELSE showModal(BlogPosts[calls[c].post].title,
                    Rendered(removeFrontmatter(body)), c)
  /\ ev' = Event("textSettles", Null)
  /\ UNCHANGED <<formVars, routerVars, portfolioVars, articlesVars, domContentLoaded,
                 watcherVars, marked, applied>>

\* response.text() of call c settles with the file's text (or rejects), and
\* openPost runs to its end
TextSettles(c, body, rejects, parseThrows) ==
  /\ calls[c].pc = "text"
  /\ calls' = [calls EXCEPT ![c].pc = "done", ![c].settled = "fulfilled",
                            ![c].body = IF rejects THEN <<>> ELSE body,
                            ![c].engine = IF rejects THEN "unused"
                                          ELSE IF ~marked THEN "absent"
                                          ELSE IF parseThrows THEN "threw"
                                          ELSE "parsed"]
  /\ IF rejects THEN openPostCatch(c, FailedToFetch)
     ELSE IF ~marked THEN openPostCatch(c, MarkedNotAvailable)
     ELSE IF parseThrows THEN openPostCatch(c, ParseError)
     ELSE showModal(BlogPosts[calls[c].post].title,
                    Rendered(removeFrontmatter(body)), c)
  /\ ev' = Event("textSettles", Null)
  /\ UNCHANGED <<formVars, routerVars, portfolioVars, articlesVars, domContentLoaded,
                 watcherVars, marked, applied>>

\* the script that defines the conversion engine finishes loading
MarkedLoaded ==
  /\ ~marked
  /\ marked' = TRUE
  /\ ev' = Event("markedLoaded", Null)
  /\ UNCHANGED <<formVars, routerVars, portfolioVars, articlesVars, domContentLoaded,
                 watcherVars, calls, modals, applied>>

\* closeModal of modal m: removeChild throws when the overlay is detached
closeModalThrows(m) == ~modals[m].attached

\* the click reaches no handler that calls closeModal
CloseClick_NoHandler(m, target) ==
  /\ modals[m].attached
  /\ modals' = modals
  /\ ev' = Event(target, Null)
  /\ UNCHANGED <<formVars, routerVars, portfolioVars, articlesVars, domContentLoaded,
                 watcherVars, marked, calls, applied>>

\* a click on the close control, or on the backdrop itself, of an overlay
\* that is in the document
CloseClick(m, target) ==
  /\ modals[m].attached
  /\ modals' = [modals EXCEPT ![m].attached = FALSE,
                              ![m].removals = modals[m].removals + 1]
  /\ ev' = Event(target, Null)
  /\ UNCHANGED <<formVars, routerVars, portfolioVars, articlesVars, domContentLoaded,
                 watcherVars, marked, calls, applied>>

\* an Escape key press runs every registered handleEscape
EscapeKey ==
  /\ modals' = [m \in DOMAIN modals |->
                  IF modals[m].escListener /\ ~closeModalThrows(m)
                  THEN [modals[m] EXCEPT !.attached = FALSE, !.escListener = FALSE,
                                         !.removals = modals[m].removals + 1]
                  ELSE modals[m]]
  /\ ev' = IF \E m \in DOMAIN modals : modals[m].escListener /\ closeModalThrows(m)
           THEN Thrown("keydown", "Escape")
           ELSE Event("keydown", "Escape")
  /\ UNCHANGED <<formVars, routerVars, portfolioVars, articlesVars, domContentLoaded,
                 watcherVars, marked, calls, applied>>

\* modal.querySelectorAll('pre code'): the code blocks of modal m, by their
\* position in the body.  The renderer (lines 93-109) turns every fenced
\* block of the text into one <pre><code>; the message of the catch block is
\* a paragraph and has none.
CodeBlocks(m) ==
  IF modals[m].content.kind = "html"
  THEN {k \in DOMAIN modals[m].content.text :
          modals[m].content.text[k] = CodeFence}
  ELSE {}

\* a formatting pass that selects the code blocks of the whole document
FormatTimerFires_DocumentWide(m) ==
  /\ modals[m].formatTimer
  /\ modals' = [n \in DOMAIN modals |->
                  IF n = m
                  THEN [modals[n] EXCEPT !.formatTimer = FALSE, !.formatted = TRUE,
                                         !.passes = modals[n].passes + 1,
                                         !.nowrap = IF modals[n].attached
                                                    THEN CodeBlocks(n)
                                                    ELSE modals[n].nowrap]
                  ELSE IF modals[n].attached
                  THEN [modals[n] EXCEPT !.nowrap = CodeBlocks(n)]
                  ELSE modals[n]]
  /\ ev' = Event("formatTimer", Null)
  /\ UNCHANGED <<formVars, routerVars, portfolioVars, articlesVars, domContentLoaded,
                 watcherVars, marked, calls, applied>>

\* the deferred formatting pass of modal m: fixCodeFormatting on each of its
\* code blocks, in the document or not
FormatTimerFires(m) ==
  /\ modals[m].formatTimer
  /\ modals' = [modals EXCEPT ![m].formatTimer = FALSE, ![m].formatted = TRUE,
                              ![m].passes = modals[m].passes + 1,
                              ![m].nowrap = CodeBlocks(m)]
  /\ ev' = Event("formatTimer", Null)
  /\ UNCHANGED <<formVars, routerVars, portfolioVars, articlesVars, domContentLoaded,
                 watcherVars, marked, calls, applied>>

(***************************************************************************)
(* Initial states: the parsed markup, before any handler has run.          *)
(***************************************************************************)
Items(categories) == [i \in DOMAIN categories |->
                        [category |-> categories[i], active |-> TRUE]]
\* items of the articles section that the markup contains (no catalog entry)
ArticleItems(categories) == [i \in DOMAIN categories |->
                        [category |-> categories[i], active |-> TRUE, post |-> 0]]
Buttons(labels) == [i \in DOMAIN labels |->
                      [innerText |-> labels[i], active |-> (i = 1)]]

\* the markup marks the first page section and the first control active
InitPages(order) ==
  /\ pages = [i \in DOMAIN order |-> [page |-> order[i], active |-> (order[i] = "about")]]
  /\ navigationLinks = [i \in DOMAIN NavLabels |->
                          [innerHTML |-> NavLabels[i],
                           active |-> (NavLabels[i] = "About")]]

InitCommon ==
  /\ currentPage = (IF sessionStorage # Null THEN sessionStorage ELSE "about")
  /\ scrollY = 0
  /\ portfolioFilterBtn = Buttons(PortfolioLabels)
  /\ articlesFilterBtn = Buttons(ArticlesLabels)
  /\ portfolioSelect = FALSE
  /\ articlesSelect = FALSE
  /\ portfolioSelectValue = "Select category"
  /\ articlesSelectValue = "Select category"
  /\ lastClickedBtnPortfolio = 0
  /\ lastClickedBtnArticles = 0
  /\ domContentLoaded = FALSE
  /\ watcher = "notrun"
  /\ initTimers = 0
  /\ mediumTimers = 0
  /\ mediumBtnListeners = 0
  /\ globalBlogManager = [constructed |-> FALSE, initialized |-> FALSE,
                           renders |-> 0]
  /\ marked = FALSE
  /\ calls = <<>>
  /\ modals = <<>>
  /\ formBtn = [textContent |-> SubmitLabel, disabled |-> TRUE]
  /\ formValid = FALSE
  /\ formTimers = <<>>
  /\ applied = [portfolio |-> Null, articles |-> Null]
  /\ ev = Event("load", Null)

\* the document as published: sections and controls in the same order
DocumentOrder == <<"about", "resume", "blog">>
DocumentPortfolio == <<"web design", "Applications", "Web Design">>
DocumentArticles == <<"Edge AI", "GPU Programming", "edge ai">>

\* router inputs: any order of the page sections, any persisted value
InitRouter ==
  /\ articlesContainer = TRUE
  /\ \E order \in [1..Len(NavLabels) -> PageIds] :
        Injective(order) /\ InitPages(order)
  /\ sessionStorage \in PageIds \cup {Null, StalePageId}
  /\ portfolioItems = Items(DocumentPortfolio)
  /\ articleItems = ArticleItems(DocumentArticles)
  /\ InitCommon

\* filter inputs: the items the markup puts into the two sections
InitFilter ==
  /\ articlesContainer = TRUE
  /\ InitPages(DocumentOrder)
  /\ sessionStorage = Null
  /\ portfolioItems \in {Items(c) : c \in PortfolioDocuments}
  /\ articleItems \in {ArticleItems(c) : c \in ArticlesDocuments}
  /\ InitCommon

\* loader inputs: the published document, restored on the articles page
InitLoader ==
  /\ articlesContainer = TRUE
  /\ InitPages(DocumentOrder)
  /\ sessionStorage = "blog"
  /\ portfolioItems = Items(DocumentPortfolio)
  /\ articleItems = ArticleItems(DocumentArticles)
  /\ InitCommon

\* watcher inputs: the published document with or without the listing
\* container, restored on the articles page or on the default page
InitWatcher ==
  /\ articlesContainer \in BOOLEAN
  /\ InitPages(DocumentOrder)
  /\ sessionStorage \in {Null, "blog"}
  /\ portfolioItems = Items(DocumentPortfolio)
  /\ articleItems = ArticleItems(DocumentArticles)
  /\ InitCommon

\* the published document, loaded with a persisted id that names no page
InitCore ==
  /\ articlesContainer = TRUE
  /\ InitPages(DocumentOrder)
  /\ sessionStorage = StalePageId
  /\ portfolioItems = Items(DocumentPortfolio)
  /\ articleItems = ArticleItems(DocumentArticles)
  /\ InitCommon

\* the published document, restored on any page or on none
InitFrame ==
  /\ articlesContainer = TRUE
  /\ InitPages(DocumentOrder)
  /\ sessionStorage \in {Null, "blog", StalePageId}
  /\ portfolioItems = Items(DocumentPortfolio)
  /\ articleItems = ArticleItems(DocumentArticles)
  /\ InitCommon

\* documents in which an item of a section carries no data-category
GapPortfolioDocuments == {<<"web design", Undefined, "Applications">>,
                          <<Undefined, "web design">>}
GapArticlesDocuments == {<<"Edge AI", Undefined, "GPU Programming">>}

InitFilterGaps ==
  /\ articlesContainer = TRUE
  /\ InitPages(DocumentOrder)
  /\ sessionStorage = Null
  /\ portfolioItems \in {Items(c) : c \in GapPortfolioDocuments}
  /\ articleItems \in {ArticleItems(c) : c \in GapArticlesDocuments}
  /\ InitCommon

\* values of data-category: the document's, in several spellings, the
\* catalog's, and the empty attribute
FilterCategories == {"Edge AI", "edge ai", "GPU Programming", "GPU Architecture",
                     "Web design", ""}
\* selected values: lower-cased texts of controls, the values the articles
\* filter names, and the text of a control without text
FilterValues == {"all", "edge ai", "gpu programming", "linux kernel",
                 "web design", ""}

\* both sections hold the same collection, of up to MaxItems items that all
\* carry the attribute
InitEquivalence ==
  /\ articlesContainer = TRUE
  /\ InitPages(DocumentOrder)
  /\ sessionStorage = Null
  /\ \E n \in 1..MaxItems : \E c \in [1..n -> FilterCategories] :
        /\ portfolioItems = Items(c)
        /\ articleItems = ArticleItems(c)
  /\ InitCommon

Init == InitRouter \/ InitFilter \/ InitLoader \/ InitWatcher \/ InitCore
          \/ InitFrame \/ InitFilterGaps \/ InitEquivalence

RouterNext ==
  \/ DOMContentLoaded
  \/ \E i \in DOMAIN navigationLinks : NavLinkClick(i)
  \/ PopState
  \/ UserScroll

PortfolioNext ==
  \/ PortfolioSelectClick
  \/ \E i \in DOMAIN PortfolioLabels : PortfolioSelectItemClick(i)
  \/ \E i \in DOMAIN portfolioFilterBtn : PortfolioFilterBtnClick(i)

ArticlesNext ==
  \/ ArticlesSelectClick
  \/ \E i \in DOMAIN ArticlesLabels : ArticlesSelectItemClick(i)
  \/ \E i \in DOMAIN articlesFilterBtn : ArticlesFilterBtnClick(i)

WatcherNext ==
  \/ \E loading \in BOOLEAN : BlogScriptRun(loading)
  \/ InitTimerFires
  \/ IntervalFires
  \/ MediumTimerFires

LoaderNext ==
  \/ MarkedLoaded
  \/ \E i \in DOMAIN articleItems : OpenPostClick(i)
  \/ \E c \in DOMAIN calls : \E outcome \in {"ok", "notok", "reject"} :
        FetchSettles(c, outcome)
  \/ \E c \in DOMAIN calls : \E rejects, parseThrows \in BOOLEAN :
        TextSettles(c, ArticleBody, rejects, parseThrows)

\* the three ways of dismissing a modal
DismissNext ==
  \/ \E m \in DOMAIN modals : \E target \in {"closeBtn", "backdrop"} :
        CloseClick(m, target)
  \/ EscapeKey

ModalNext ==
  \/ DismissNext
  \/ \E m \in DOMAIN modals : FormatTimerFires(m)

\* one article is opened and its file, any of FileBodies, is received
FrontmatterNext ==
  \/ MarkedLoaded
  \/ \E i \in DOMAIN articleItems : calls = <<>> /\ OpenPostClick(i)
  \/ \E c \in DOMAIN calls : FetchSettles(c, "ok")
  \/ \E c \in DOMAIN calls : \E body \in FileBodies :
        TextSettles(c, body, FALSE, FALSE)

\* the contact form: edits of its fields, submissions, delayed callbacks
FormNext ==
  \/ \E valid \in BOOLEAN : FormInput(valid)
  \/ FormSubmit
  \/ \E k \in DOMAIN formTimers : FormTimerFires(k)

\* the steps from page load to the rendered listing
LoaderStartup ==
  \/ \E loading \in BOOLEAN : BlogScriptRun(loading)
  \/ DOMContentLoaded
  \/ InitTimerFires

Next == RouterNext \/ PortfolioNext \/ ArticlesNext \/ WatcherNext
          \/ LoaderNext \/ ModalNext \/ ArticlesContainerInserted \/ FormNext

\* The whole page.  Its components share only the element tree, so each is
\* also specified on its own, under the events that reach it and with the
\* inputs that concern it; the other components then stay as loaded.
Spec == Init /\ [][Next]_vars
\* the router under navigation, history and startup events
SpecRouter == InitRouter /\ [][RouterNext]_vars
\* the filters of both sections under their controls and startup
SpecFilter == InitFilter /\ [][DOMContentLoaded \/ PortfolioNext \/ ArticlesNext]_vars
\* the watcher of the articles page under startup, navigation and its timers
WatcherSteps ==
  \/ DOMContentLoaded
  \/ \E i \in DOMAIN navigationLinks : NavLinkClick(i)
  \/ WatcherNext
SpecWatcher == InitWatcher /\ [][WatcherSteps]_vars
\* the same, where the scripts run, the document finishes loading and every
\* pending timeout and the running interval eventually fire
SpecWatcherLive ==
  /\ SpecWatcher
  /\ WF_vars(\E loading \in BOOLEAN : BlogScriptRun(loading))
  /\ WF_vars(DOMContentLoaded)
  /\ WF_vars(InitTimerFires)
  /\ WF_vars(IntervalFires)
  /\ WF_vars(MediumTimerFires)
\* the watcher on a document whose listing container may arrive late
SpecLateContainer ==
  InitWatcher /\ [][WatcherSteps \/ ArticlesContainerInserted]_vars
\* articles with code blocks opened one after the other, their modals
\* closed or not, and the formatting passes
FormattingNext ==
  \/ BlogScriptRun(TRUE)
  \/ DOMContentLoaded
  \/ InitTimerFires
  \/ MarkedLoaded
  \/ \E i \in DOMAIN articleItems :
        (\A c \in DOMAIN calls : calls[c].pc = "done") /\ OpenPostClick(i)
  \/ \E c \in DOMAIN calls : FetchSettles(c, "ok")
  \/ \E c \in DOMAIN calls : \E body \in CodeBodies :
        TextSettles(c, body, FALSE, FALSE)
  \/ \E m \in DOMAIN modals : CloseClick(m, "closeBtn")
  \/ \E m \in DOMAIN modals : FormatTimerFires(m)
SpecFormatting == InitLoader /\ [][FormattingNext]_vars
\* the same, where every pending formatting timeout eventually fires
SpecFormattingLive ==
  /\ SpecFormatting
  /\ \A m \in 1..MaxOpens : WF_vars(m \in DOMAIN modals /\ FormatTimerFires(m))
\* the contact form on the page as loaded
SpecForm == InitLoader /\ [][FormNext]_vars
\* navigation, the articles filter and one open call after the other, on a
\* page that was loaded with a persisted id that names no page; a call fails
\* by a non-success response or by the missing engine
CoreNext ==
  \/ BlogScriptRun(TRUE)
  \/ DOMContentLoaded
  \/ InitTimerFires
  \/ \E i \in DOMAIN navigationLinks : NavLinkClick(i)
  \/ PopState
  \/ \E i \in DOMAIN articlesFilterBtn : ArticlesFilterBtnClick(i)
  \/ MarkedLoaded
  \/ \E i \in DOMAIN articleItems :
        (\A c \in DOMAIN calls : calls[c].pc = "done") /\ OpenPostClick(i)
  \/ \E c \in DOMAIN calls : \E outcome \in {"ok", "notok"} :
        FetchSettles(c, outcome)
  \/ \E c \in DOMAIN calls : TextSettles(c, ArticleBody, FALSE, FALSE)
SpecCore == InitCore /\ [][CoreNext]_vars
\* the router and the filters on one page: the dropdown of one section,
\* the buttons of the other
FrameNext ==
  \/ DOMContentLoaded
  \/ \E i \in DOMAIN navigationLinks : NavLinkClick(i)
  \/ PopState
  \/ \E i \in DOMAIN PortfolioLabels : PortfolioSelectItemClick(i)
  \/ \E i \in DOMAIN articlesFilterBtn : ArticlesFilterBtnClick(i)
SpecFrame == InitFrame /\ [][FrameNext]_vars
\* the articles filter interleaved with the startup that renders the listing
SpecListing == InitLoader /\ [][LoaderStartup \/ ArticlesNext]_vars
\* the filters over sections in which an item carries no category
SpecFilterGaps ==
  InitFilterGaps /\ [][DOMContentLoaded \/ PortfolioNext \/ ArticlesNext]_vars
\* the two filter functions side by side on equal collections
SpecEquivalence ==
  InitEquivalence /\ [][\E c \in FilterValues : ApplyFilters(c)]_vars
\* the removal of the metadata block, over the files an article can be
SpecFrontmatter == InitLoader /\ [][LoaderStartup \/ FrontmatterNext]_vars
\* the loader and the dismissal of its modals, with the startup that renders
\* the listing
SpecLoader == InitLoader /\ [][LoaderStartup \/ LoaderNext \/ DismissNext]_vars

(***************************************************************************)
(* Properties of the PageRouter.                                           *)
(***************************************************************************)
KnownPageIds == {pages[i].page : i \in DOMAIN pages}
\* the handlers that end in a call of setActivePage(ev.val)
RouterOps == {"navLinkClick", "popstate", "DOMContentLoaded"}
CalledSetActivePage == ev.op \in RouterOps
DefaultPage == "about"

\* C1: after setActivePage(p) for a page id p carried by a page section,
\* exactly one page section is active and it is the one whose id is p,
\* exactly one navigation control is active, and the session value is p.
C1_KnownIdActivatesOne ==
  (CalledSetActivePage /\ ev.val \in KnownPageIds) =>
     /\ ActiveIdx(pages) = Matches(ev.val)
     /\ Cardinality(ActiveIdx(pages)) = 1
     /\ Cardinality(ActiveIdx(navigationLinks)) = 1
     /\ sessionStorage = ev.val

\* a navigation click has moved the router from the default page to "blog"
C1_Witness ==
  /\ ev = Event("navLinkClick", "blog")
  /\ \E i \in DOMAIN pages : pages[i].page = "blog" /\ pages[i].active
  /\ sessionStorage = "blog"

\* C2: once startup initialization has run, exactly one page section and
\* exactly one navigation control are active, and the active control is the
\* one whose identifier is the active page's.
C2_OnePageAndItsControl ==
  domContentLoaded =>
     /\ Cardinality(ActiveIdx(pages)) = 1
     /\ Cardinality(ActiveIdx(navigationLinks)) = 1
     /\ \A i \in ActiveIdx(pages) : \A j \in ActiveIdx(navigationLinks) :
           toLowerCase(navigationLinks[j].innerHTML) = pages[i].page

\* C3: after setActivePage(id) for an id that no page section carries, the
\* default page and its navigation control are active; the pages are never
\* all inactive.
C3_UnknownIdFallsBack ==
  (CalledSetActivePage /\ ev.val \notin KnownPageIds) =>
     /\ \E i \in ActiveIdx(pages) : pages[i].page = DefaultPage
     /\ \E j \in ActiveIdx(navigationLinks) :
           toLowerCase(navigationLinks[j].innerHTML) = DefaultPage

(***************************************************************************)
(* Properties of the FilterController.                                     *)
(***************************************************************************)
\* the filtering predicate: an item of category cat is shown under c
Shown(cat, c) == c = "all" \/ toLowerCase(cat) = toLowerCase(c)
FilteredBy(items, c) == \A i \in DOMAIN items : items[i].active <=> Shown(items[i].category, c)

PortfolioFilterOps == {"portfolioSelectItem", "portfolioFilterBtn"}
ArticlesFilterOps == {"articlesSelectItem", "articlesFilterBtn"}

\* C4: applying category c to a section leaves every item of the section
\* shown if c is "all", and otherwise shows exactly the items whose category
\* attribute equals c case-insensitively and hides the others; in both
\* sections, whatever the items' visibility was before.
C4_FilterPredicate ==
  /\ ev.op \in PortfolioFilterOps => FilteredBy(portfolioItems, ev.val)
  /\ ev.op \in ArticlesFilterOps => FilteredBy(articleItems, ev.val)

\* a category was applied after another one had hidden the items it shows,
\* and it shows an item whose attribute differs from it in case
C4_Witness ==
  /\ ev = Event("portfolioFilterBtn", "web design")
  /\ \E i \in DOMAIN portfolioItems :
        portfolioItems[i].category = "Web Design" /\ portfolioItems[i].active
  /\ \E i \in DOMAIN portfolioItems : ~portfolioItems[i].active

PortfolioFilterAction ==
  \/ \E i \in DOMAIN PortfolioLabels : PortfolioSelectItemClick(i)
  \/ \E i \in DOMAIN portfolioFilterBtn : PortfolioFilterBtnClick(i)
ArticlesFilterAction ==
  \/ \E i \in DOMAIN ArticlesLabels : ArticlesSelectItemClick(i)
  \/ \E i \in DOMAIN articlesFilterBtn : ArticlesFilterBtnClick(i)

\* C5: a filter action (dropdown selection or filter-button click) of one
\* section changes neither the visibility of the other section's items nor
\* the other section's active button and displayed label.
C5_FilterScopedToSection ==
  [][ /\ PortfolioFilterAction =>
           UNCHANGED <<articleItems, articlesFilterBtn, articlesSelectValue>>
      /\ ArticlesFilterAction =>
           UNCHANGED <<portfolioItems, portfolioFilterBtn, portfolioSelectValue>> ]_vars

\* a portfolio category was applied while the articles section was filtered
\* by a category that the portfolio category would hide
C5_Witness ==
  /\ ev = Event("portfolioFilterBtn", "applications")
  /\ applied.articles = "edge ai"
  /\ \E i \in DOMAIN articleItems : articleItems[i].active
  /\ \E i \in DOMAIN articleItems : ~articleItems[i].active

\* C6: after startup initialization, a click on filter button b of a section
\* whose active button is a leaves exactly b active, shows b's text as the
\* section's label and leaves the section's items filtered by b's category.
C6_ClickMovesActiveButton ==
  [][ /\ \A a, b \in DOMAIN portfolioFilterBtn :
           (domContentLoaded /\ ActiveIdx(portfolioFilterBtn) = {a}
              /\ PortfolioFilterBtnClick(b)) =>
             /\ ActiveIdx(portfolioFilterBtn') = {b}
             /\ portfolioSelectValue' = portfolioFilterBtn[b].innerText
             /\ FilteredBy(portfolioItems', toLowerCase(portfolioFilterBtn[b].innerText))
      /\ \A a, b \in DOMAIN articlesFilterBtn :
           (domContentLoaded /\ ActiveIdx(articlesFilterBtn) = {a}
              /\ ArticlesFilterBtnClick(b)) =>
             /\ ActiveIdx(articlesFilterBtn') = {b}
             /\ articlesSelectValue' = articlesFilterBtn[b].innerText
             /\ FilteredBy(articleItems', toLowerCase(articlesFilterBtn[b].innerText)) ]_vars

\* C7: in every state each section has at most one active filter button.
C7_AtMostOneActiveButton ==
  /\ Cardinality(ActiveIdx(portfolioFilterBtn)) <= 1
  /\ Cardinality(ActiveIdx(articlesFilterBtn)) <= 1

\* the buttons of a section whose text denotes category c
ButtonsOf(btns, c) == {i \in DOMAIN btns : toLowerCase(btns[i].innerText) = c}

\* C8: once a category has been selected in a section through the dropdown
\* or a filter button, the section's label, its active filter button and the
\* category applied to its items denote the same category.
C8_DropdownAndButtonsInSync ==
  /\ applied.portfolio # Null =>
        /\ toLowerCase(portfolioSelectValue) = applied.portfolio
        /\ ActiveIdx(portfolioFilterBtn) = ButtonsOf(portfolioFilterBtn, applied.portfolio)
  /\ applied.articles # Null =>
        /\ toLowerCase(articlesSelectValue) = applied.articles
        /\ ActiveIdx(articlesFilterBtn) = ButtonsOf(articlesFilterBtn, applied.articles)

\* C9: when startup initialization completes, the first filter button of each
\* section is the one marked active and the one recorded as the section's
\* active control, and every item of the articles section is shown.
C9_StartupDefaults ==
  ev.op = "DOMContentLoaded" =>
     /\ ActiveIdx(portfolioFilterBtn) = {1} /\ lastClickedBtnPortfolio = 1
     /\ ActiveIdx(articlesFilterBtn) = {1} /\ lastClickedBtnArticles = 1
     /\ \A i \in DOMAIN articleItems : articleItems[i].active

(***************************************************************************)
(* Properties of the ContentLoader.                                        *)
(***************************************************************************)
ModalsOf(c) == {m \in DOMAIN modals : modals[m].call = c}

\* C10: every call of openPost completes without throwing to its caller and
\* builds exactly one modal, whose body is the rendered article or an inline
\* error message, however the retrieval and the conversion turn out; a call
\* that is still suspended has built none.
C10_OpenAlwaysShowsOneModal ==
  \A c \in DOMAIN calls :
     /\ calls[c].settled # "rejected"
     /\ calls[c].pc = "done" =>
          /\ calls[c].settled = "fulfilled"
          /\ Cardinality(ModalsOf(c)) = 1
          /\ \A m \in ModalsOf(c) :
                /\ modals[m].content.kind \in {"html", "error"}
                /\ modals[m].title = BlogPosts[calls[c].post].title
     /\ calls[c].pc # "done" => ModalsOf(c) = {}

\* two calls have completed: one rendered the article without its metadata
\* block, the other found no conversion engine and shows the error message
C10_Witness ==
  \E c, d \in DOMAIN calls :
     /\ calls[c].pc = "done" /\ calls[d].pc = "done"
     /\ \E m \in ModalsOf(c) : modals[m].content = Rendered(BodyPlain)
     /\ \E m \in ModalsOf(d) : modals[m].content = ErrorMessage(MarkedNotAvailable)

\* C11: a call whose request rejected, or was answered with a non-success
\* status, has completed with exactly one modal that carries the article's
\* title and the inline error message of that failure, shows no rendered
\* content, and has not used the conversion engine.
C11_FailedRetrievalShowsError ==
  \A c \in DOMAIN calls :
     calls[c].response \in {"reject", "notok"} =>
        /\ calls[c].pc = "done"
        /\ calls[c].engine = "unused"
        /\ Cardinality(ModalsOf(c)) = 1
        /\ \A m \in ModalsOf(c) :
              /\ modals[m].title = BlogPosts[calls[c].post].title
              /\ modals[m].content =
                    ErrorMessage(IF calls[c].response = "reject"
                                 THEN FailedToFetch ELSE FailedToLoad)

\* with the engine defined, one request has rejected and another was
\* answered with a non-success status; each shows its error
C11_Witness ==
  /\ marked
  /\ \E c, d \in DOMAIN calls :
        /\ calls[c].response = "reject" /\ calls[d].response = "notok"
        /\ \E m \in ModalsOf(c) : modals[m].content = ErrorMessage(FailedToFetch)
        /\ \E m \in ModalsOf(d) : modals[m].content = ErrorMessage(FailedToLoad)

\* C12 as stated: a call made while the conversion engine was not defined
\* ends with a modal that shows an error message and no rendered content.
C12_EngineAbsentAtCall ==
  \A c \in DOMAIN calls :
     (calls[c].pc = "done" /\ ~calls[c].markedAtCall) =>
        \A m \in ModalsOf(c) : modals[m].content.kind = "error"

\* C12: the step in which a call receives the article's text while the
\* conversion engine is not defined ends the call with a modal that shows an
\* error message and no rendered content; the message is the one of the
\* missing engine when the text was received.
C12_EngineAbsentAtConversion ==
  [][\A c \in DOMAIN calls :
        (calls[c].pc = "text" /\ calls'[c].pc = "done" /\ ~marked) =>
           /\ calls'[c].engine \in {"unused", "absent"}
           /\ \E m \in DOMAIN modals' :
                 /\ modals'[m].call = c
                 /\ modals'[m].content.kind = "error"
                 /\ calls'[c].engine = "absent" =>
                       modals'[m].content = ErrorMessage(MarkedNotAvailable)]_vars

\* a call made and completed without the engine shows the missing-engine
\* message
C12_Witness ==
  \E c \in DOMAIN calls :
     /\ calls[c].pc = "done" /\ ~calls[c].markedAtCall
     /\ calls[c].engine = "absent" /\ ~marked
     /\ \E m \in ModalsOf(c) : modals[m].content = ErrorMessage(MarkedNotAvailable)

\* position k (counted from 0) of str starts a line that is exactly the marker
IsMarkerLineAt(str, k) ==
  /\ k = 0 \/ str[k] = "\n"
  /\ k + 3 <= Len(str)
  /\ SubSeq(str, k + 1, k + 3) = Marker
  /\ k + 3 = Len(str) \/ str[k + 4] = "\n"

\* the text after the first marker line that follows the opening marker line
\* (after that line's end), or the whole text when there is no such block
TextAfterMetadata(str) ==
  LET later == {k \in 1..Len(str) : IsMarkerLineAt(str, k)} IN
  IF IsMarkerLineAt(str, 0) /\ later # {}
  THEN LET second == CHOOSE k \in later : \A h \in later : k <= h IN
       SubSeq(str, second + 5, Len(str))
  ELSE str

\* C13: the text handed to the conversion engine is, for a file that begins
\* with a marker line of exactly three dashes and has a second such line
\* later, exactly the text that follows the second marker line, and for every
\* other file the file unchanged.
C13_MetadataBlockRemoved ==
  \A c \in DOMAIN calls :
     calls[c].engine = "parsed" =>
        \A m \in ModalsOf(c) :
           modals[m].content = Rendered(TextAfterMetadata(calls[c].body))

(***************************************************************************)
(* Properties of the ModalPresenter.                                       *)
(***************************************************************************)
Attached == {m \in DOMAIN modals : modals[m].attached}

\* C14: a click on the close control or on the backdrop of an open modal, and
\* an Escape key press while it is open, removes that modal's overlay from the
\* document; no overlay is ever removed twice, and an overlay is attached
\* exactly until its one removal.
C14_DismissalRemovesOverlayOnce ==
  [][/\ \A m \in DOMAIN modals :
          (/\ modals[m].attached
           /\ \/ CloseClick(m, "closeBtn")
              \/ CloseClick(m, "backdrop")
              \/ EscapeKey) =>
             (~modals'[m].attached /\ modals'[m].removals = 1)
     /\ \A m \in DOMAIN modals' :
          /\ modals'[m].removals <= 1
          /\ modals'[m].attached <=> modals'[m].removals = 0]_vars

\* one modal was dismissed with Escape, a later one by a click on its
\* backdrop; each overlay was removed once
C14_Witness ==
  /\ ev = Event("backdrop", Null)
  /\ \E m, n \in DOMAIN modals :
        /\ ~modals[m].attached /\ ~modals[m].escListener /\ modals[m].removals = 1
        /\ ~modals[n].attached /\ modals[n].escListener /\ modals[n].removals = 1

\* C15: in every reachable state a modal's Escape listener is registered if
\* and only if its overlay is attached to the document.
C15_ListenerIffAttached ==
  \A m \in DOMAIN modals : modals[m].escListener <=> modals[m].attached

\* C16: no dismissal trigger ends in an error, in particular not an Escape
\* key press that comes after the modal was closed in another way.
C16_RepeatedDismissalHarmless ==
  ev.op \in {"closeBtn", "backdrop", "keydown"} => ~ev.threw

\* C19: in every reachable state at most one modal overlay is attached.
C19_AtMostOneModalOpen ==
  Cardinality(Attached) <= 1

(***************************************************************************)
(* Properties of the BlogInitWatcher.                                      *)
(***************************************************************************)
\* C17: the listing is rendered at most once, and a check that runs when the
\* initialized flag is set (from a timeout or from the interval) changes
\* neither the listing nor the manager.
C17_InitializedAtMostOnce ==
  [][/\ globalBlogManager'.renders <= 1
     /\ (globalBlogManager.initialized /\ (InitTimerFires \/ IntervalFires)) =>
           UNCHANGED <<articleItems, globalBlogManager, mediumTimers>>]_vars

\* the listing is rendered, its button setup has run, and a later deferred
\* check has fired without rendering again
C17_Witness ==
  /\ globalBlogManager.initialized /\ globalBlogManager.renders = 1
  /\ mediumBtnListeners = 1
  /\ ev = Event("initTimer", Null)

\* C18: if from some point on the articles page stays active and the listing
\* container exists, the listing is eventually initialized.
C18_ListingEventuallyInitialized ==
  <>[](BlogSectionActive /\ articlesContainer) => <>globalBlogManager.initialized

\* C20: the startup handler and every popstate handler leave active exactly
\* the page whose id is the value the session held when the handler ran, or
\* the page "about" when the session held none.
C20_RestoredPageIsActive ==
  [][(DOMContentLoaded \/ PopState) =>
        LET restored == IF sessionStorage # Null THEN sessionStorage
                        ELSE DefaultPage IN
        \E i \in DOMAIN pages :
           pages'[i].page = restored /\ ActiveIdx(pages') = {i}]_vars

(***************************************************************************)
(* Further properties of the PageRouter.                                   *)
(***************************************************************************)
\* C21: a handler that calls setActivePage with the id the previous handler
\* called it with, known or not, leaves the active pages, the active
\* navigation controls, currentPage and the session value as they are.
C21_SetActivePageIdempotent ==
  [][(CalledSetActivePage /\ ev'.op \in RouterOps /\ ev'.val = ev.val) =>
        UNCHANGED <<pages, navigationLinks, currentPage, sessionStorage>>]_vars

\* startup and a later popstate both called setActivePage with a persisted
\* id that names no page
C21_Witness ==
  /\ domContentLoaded
  /\ ev = Event("popstate", StalePageId)
  /\ ActiveIdx(pages) = {}

(***************************************************************************)
(* Properties of the page as a whole.                                      *)
(***************************************************************************)
\* a call of openPost has ended with an error message
OpenFailed ==
  \E c \in DOMAIN calls : \E m \in ModalsOf(c) : modals[m].content.kind = "error"

\* what a completed call shows, by how its request, its text and the
\* conversion turned out
ContentOf(call) ==
  IF call.response = "reject" THEN ErrorMessage(FailedToFetch)
  ELSE IF call.response = "notok" THEN ErrorMessage(FailedToLoad)
  ELSE IF call.engine = "unused" THEN ErrorMessage(FailedToFetch)
  ELSE IF call.engine = "absent" THEN ErrorMessage(MarkedNotAvailable)
  ELSE IF call.engine = "threw" THEN ErrorMessage(ParseError)
  ELSE Rendered(removeFrontmatter(call.body))

\* C22: once an open call has failed, or setActivePage has left no page
\* active (unknown id), a later click on a navigation control of a known
\* page makes exactly that page and that control active and persists its
\* id, a later filter-button click shows exactly the items of its category
\* and sets the label, and a later open call ends with one modal showing
\* what its own retrieval and conversion produced.
C22_FailuresNotFatal ==
  [][(OpenFailed \/ ActiveIdx(pages) = {}) =>
        /\ \A i \in DOMAIN navigationLinks :
              LET pageName == toLowerCase(navigationLinks[i].innerHTML) IN
              (NavLinkClick(i) /\ pageName \in KnownPageIds) =>
                 /\ ActiveIdx(pages') = Matches(pageName)
                 /\ Cardinality(Matches(pageName)) = 1
                 /\ ActiveIdx(navigationLinks') = {i}
                 /\ sessionStorage' = pageName /\ currentPage' = pageName
        /\ \A i \in DOMAIN articlesFilterBtn :
              ArticlesFilterBtnClick(i) =>
                 /\ FilteredBy(articleItems', toLowerCase(articlesFilterBtn[i].innerText))
                 /\ articlesSelectValue' = articlesFilterBtn[i].innerText
        /\ \A c \in DOMAIN calls :
              (calls[c].pc # "done" /\ calls'[c].pc = "done") =>
                 /\ Cardinality({m \in DOMAIN modals' : modals'[m].call = c}) = 1
                 /\ \A m \in DOMAIN modals' :
                       modals'[m].call = c =>
                          /\ modals'[m].title = BlogPosts[calls[c].post].title
                          /\ modals'[m].content = ContentOf(calls'[c])]_vars

\* the page was loaded with an unknown id, a navigation click then opened
\* the articles page, a first open call failed, a later one shows the
\* rendered article, and the filter was applied after that
C22_Witness ==
  /\ BlogSectionActive /\ Cardinality(ActiveIdx(pages)) = 1
  /\ Len(calls) >= 2
  /\ \E m \in ModalsOf(1) : modals[m].content.kind = "error"
  /\ \E m \in ModalsOf(2) : modals[m].content.kind = "html"
  /\ ev = Event("articlesFilterBtn", "gpu programming")

\* C23: every call of openPost has issued exactly one retrieval request,
\* while it is suspended and after it has completed, also when the request
\* failed or the conversion threw.
C23_OneRequestPerCall ==
  \A c \in DOMAIN calls : calls[c].fetches = 1

\* one call has ended in a failed request and another in a failed
\* conversion, each after a single request
C23_Witness ==
  \E c, d \in DOMAIN calls :
     /\ calls[c].pc = "done" /\ calls[c].response \in {"reject", "notok"}
     /\ calls[d].pc = "done" /\ calls[d].engine = "threw"
     /\ calls[c].fetches = 1 /\ calls[d].fetches = 1

\* the state of the PageRouter, and that of the FilterController that the
\* user sees: item visibility, active buttons and labels of both sections
RouterState == <<pages, navigationLinks, currentPage, sessionStorage>>
FilterState == <<portfolioItems, portfolioFilterBtn, portfolioSelectValue,
                 articleItems, articlesFilterBtn, articlesSelectValue>>

\* C24: a navigation click and a popstate event change no item's visibility,
\* no active filter button and no label; the startup handler changes of these
\* only what its own loop does before it calls setActivePage (every article
\* item shown); and every filter action, by dropdown or button, changes no
\* page's and no control's active flag, nor currentPage, nor the session
\* value.
C24_RouterAndFilterDisjoint ==
  [][/\ ((\E i \in DOMAIN navigationLinks : NavLinkClick(i)) \/ PopState) =>
           UNCHANGED FilterState
     /\ DOMContentLoaded =>
           /\ UNCHANGED <<portfolioItems, portfolioFilterBtn, portfolioSelectValue,
                          articlesFilterBtn, articlesSelectValue>>
           /\ articleItems' = [i \in DOMAIN articleItems |->
                                 AddActive(articleItems[i])]
     /\ ((\E i \in DOMAIN PortfolioLabels : PortfolioSelectItemClick(i))
           \/ (\E i \in DOMAIN articlesFilterBtn : ArticlesFilterBtnClick(i))) =>
           UNCHANGED RouterState]_vars

\* a filter was applied on the articles page, hiding items, and a navigation
\* click then left that page with the filter as it was
C24_Witness ==
  /\ ev = Event("navLinkClick", "resume")
  /\ applied.articles = "edge ai"
  /\ \E i \in DOMAIN articleItems : ~articleItems[i].active
  /\ ActiveIdx(articlesFilterBtn) = {2}
  /\ sessionStorage = "resume"

\* C25: after a click on a navigation control, the navigation controls that
\* are active are exactly those whose identifier is the page id derived from
\* the clicked control, whatever the order of the page sections is.
C25_ClickedControlIsActive ==
  ev.op = "navLinkClick" =>
     ActiveIdx(navigationLinks) =
        {j \in DOMAIN navigationLinks :
            toLowerCase(navigationLinks[j].innerHTML) = ev.val}

\* C26: once startup initialization has run, the session value, currentPage
\* and the id of every active page section are equal, and a page section is
\* active.
C26_SessionVariableAndPageAgree ==
  domContentLoaded =>
     /\ sessionStorage = currentPage
     /\ ActiveIdx(pages) # {}
     /\ \A i \in ActiveIdx(pages) : pages[i].page = sessionStorage

\* C27: once a category has been applied to the articles section, the items
\* of that section that are shown are exactly those the filter predicate
\* selects for the category applied last, also when the listing is rendered
\* between or after filter actions.
C27_ArticlesShownMatchFilter ==
  applied.articles # Null => FilteredBy(articleItems, applied.articles)

\* C28: after a filter-button click every item of the section has been
\* evaluated against the clicked category (also items without a category
\* attribute, which only "all" shows), and the clicked button is active with
\* its text as the label: label, active button and items change together.
C28_FilterClickAllOrNothing ==
  /\ ev.op = "portfolioFilterBtn" =>
        /\ FilteredBy(portfolioItems, ev.val)
        /\ toLowerCase(portfolioSelectValue) = ev.val
        /\ \E i \in ActiveIdx(portfolioFilterBtn) :
              toLowerCase(portfolioFilterBtn[i].innerText) = ev.val
  /\ ev.op = "articlesFilterBtn" =>
        /\ FilteredBy(articleItems, ev.val)
        /\ toLowerCase(articlesSelectValue) = ev.val
        /\ \E i \in ActiveIdx(articlesFilterBtn) :
              toLowerCase(articlesFilterBtn[i].innerText) = ev.val

C30_ModalShowsItsOwnCall ==
  \A m \in DOMAIN modals :
     LET call == calls[modals[m].call] IN
     /\ call.pc = "done"
     /\ modals[m].title = BlogPosts[call.post].title
     /\ modals[m].content = ContentOf(call)

\* two calls overlapped and the later one completed first; one shows the
\* rendered article, the other an error message
C30_Witness ==
  /\ Len(modals) >= 2
  /\ modals[1].call = 2 /\ modals[2].call = 1
  /\ modals[1].content.kind = "error" /\ modals[2].content.kind = "html"
  /\ modals[1].attached /\ modals[2].attached


(***************************************************************************)
(* Laziness of the BlogInitWatcher.                                        *)
(***************************************************************************)
\* a run of initBlogManager: from a timeout, or from the interval when the
\* interval's own test lets it through
Attempt ==
  \/ InitTimerFires
  \/ (IntervalFires /\ globalBlogManager.constructed
                    /\ ~globalBlogManager.initialized)

\* the step renders the listing or sets the initialized flag
Initializes ==
  \/ globalBlogManager'.renders # globalBlogManager.renders
  \/ (globalBlogManager'.initialized /\ ~globalBlogManager.initialized)

\* what an attempt can touch besides the timer that started it
AttemptFrame ==
  <<routerVars, portfolioVars, articlesVars, mediumTimers, mediumBtnListeners,
    articlesContainer, loaderVars>>

\* C31 as stated: the listing is rendered and the flag set only by an attempt
\* that runs while the articles page is active, and an attempt that runs
\* while the page is inactive changes nothing, the manager included.
C31_InactiveAttemptChangesNothing ==
  [][/\ Initializes => (Attempt /\ BlogSectionActive)
     /\ (Attempt /\ ~BlogSectionActive) =>
           UNCHANGED <<AttemptFrame, globalBlogManager>>]_vars

\* C31, amended: the listing is rendered and the flag set only by an attempt
\* that runs while the articles page is active; an attempt that runs while
\* the page is inactive renders nothing, leaves the flag unset and schedules
\* nothing, and its only effect is that the manager object exists afterwards.
C31_LazyInitialization ==
  [][/\ Initializes => (Attempt /\ BlogSectionActive)
     /\ (Attempt /\ ~BlogSectionActive) =>
           /\ UNCHANGED AttemptFrame
           /\ globalBlogManager' =
                 [globalBlogManager EXCEPT !.constructed = TRUE]]_vars

\* a deferred check ran while another page was shown and only constructed the
\* manager; nothing is rendered and nothing is scheduled
C31_Witness ==
  /\ ev = Event("initTimer", Null)
  /\ ~BlogSectionActive
  /\ globalBlogManager = [constructed |-> TRUE, initialized |-> FALSE,
                           renders |-> 0]
  /\ mediumTimers = 0


\* the step is an attempt that calls init()
CallsInit == Attempt /\ BlogSectionActive /\ ~globalBlogManager.initialized

\* C32: an attempt that calls init() and finds no listing container leaves
\* the initialized flag unset and renders nothing; an attempt that calls
\* init() when the container exists, after failed ones too, renders the
\* catalog and sets the flag.
C32_OnlySuccessInitializes ==
  [][/\ (CallsInit /\ ~articlesContainer) =>
           /\ ~globalBlogManager'.initialized
           /\ globalBlogManager'.renders = globalBlogManager.renders
           /\ articleItems' = articleItems
     /\ (CallsInit /\ articlesContainer) =>
           /\ globalBlogManager'.initialized
           /\ globalBlogManager'.renders = globalBlogManager.renders + 1
           /\ articleItems' = loadBlogPosts]_vars

\* two attempts have called init(): each scheduled a button setup, and only
\* one of them rendered, after the container had arrived
C32_Witness ==
  /\ articlesContainer
  /\ globalBlogManager.initialized /\ globalBlogManager.renders = 1
  /\ mediumTimers + mediumBtnListeners = 2


(***************************************************************************)
(* The deferred formatting pass of the ModalPresenter.                     *)
(***************************************************************************)
\* the formatting pass of modal m has run once and every code block of its
\* body carries the no-wrap style
Formatted(m) ==
  /\ m \in DOMAIN modals
  /\ modals[m].passes = 1
  /\ modals[m].nowrap = CodeBlocks(m)

\* the step changes nothing of modal n but what a formatting pass sets
SamePresentation(n) ==
  /\ modals'[n].title = modals[n].title
  /\ modals'[n].content = modals[n].content
  /\ modals'[n].attached = modals[n].attached
  /\ modals'[n].escListener = modals[n].escListener

\* C33: every modal that is shown gets its formatting pass, dismissed or not:
\* eventually the pass has run once and all code blocks of the modal's body
\* carry the no-wrap style.  The pass never runs twice; the styling of a
\* modal changes only in its own pass; and a pass changes nothing but the
\* code blocks of its own modal.
C33_FormattingPassRunsOnce ==
  /\ \A m \in 1..MaxOpens : (m \in DOMAIN modals) ~> Formatted(m)
  /\ [](\A m \in DOMAIN modals :
          /\ modals[m].passes <= 1
          /\ modals[m].passes = 1 => modals[m].nowrap = CodeBlocks(m)
          /\ modals[m].passes = 0 => modals[m].nowrap = {})
  /\ [][/\ Len(modals') >= Len(modals)
        /\ \A m \in DOMAIN modals :
             modals'[m] # modals[m] /\ modals'[m].passes = modals[m].passes =>
                modals'[m].nowrap = modals[m].nowrap
        /\ ev'.op = "formatTimer" =>
             /\ \E m \in DOMAIN modals :
                  /\ modals'[m].passes = modals[m].passes + 1
                  /\ SamePresentation(m)
                  /\ \A n \in DOMAIN modals \ {m} : modals'[n] = modals[n]
             /\ Len(modals') = Len(modals)
             /\ UNCHANGED <<routerVars, portfolioVars, articlesVars,
                            watcherVars, marked, calls>>]_vars

\* the one modal was dismissed before its delay elapsed, and the pass has
\* styled the two code blocks of its body all the same
C33_Witness ==
  /\ Len(modals) = 1
  /\ ~modals[1].attached
  /\ ev = Event("formatTimer", Null)
  /\ Formatted(1)
  /\ Cardinality(modals[1].nowrap) = 2


(***************************************************************************)
(* Properties of the contact form.                                         *)
(***************************************************************************)
\* C34: when the last pending delayed callback of the contact form has
\* fired, after any submissions and input events, the submit control shows
\* the label it had before the first submission and is enabled.
C34_LabelRestored ==
  (/\ formTimers # <<>>
   /\ \A k \in DOMAIN formTimers : formTimers[k].stage = Done
   /\ ev.op = "formTimer") =>
     /\ formBtn.textContent = SubmitLabel
     /\ ~formBtn.disabled

====
